---- MODULE Spec2Model ----
(***************************************************************************)
(* Model of the combined res_map.json lifecycle of wot.gameface: the       *)
(* pipeline that merges mod configs with the game's original res_map.json, *)
(* stores the result in res_mods, restarts the client when the stored file *)
(* changed, and notifies on_ready subscribers once the file is validated.  *)
(*                                                                         *)
(* The lifecycle is taken from the flow diagram in src/README.md (lines    *)
(* 199-227) and the component list (lines 28-31).  The parts the README    *)
(* does not describe (the order subscribers are notified in, how a key is  *)
(* generated for an item) follow the specification.                        *)
(*                                                                         *)
(* A behaviour is a chain of process lifetimes over one disk: the mod      *)
(* configs, the stored res_map.json and RESTART_FLAG_FILE survive a        *)
(* restart, everything else is reset by it.                                *)
(***************************************************************************)
EXTENDS Integers, Sequences, FiniteSets, TLC

\* ------------------------------------------------------------------ bounds
MaxItems     == 2   \* distinct itemIDs a mod config may define
MaxCallbacks == 3   \* callbacks that register with on_ready in one lifetime
MaxLifetimes == 5   \* process lifetimes in one behaviour

Items     == 1..MaxItems

\* The content of an item is opaque to the pipeline: two distinct contents tell
\* a changed entry from an unchanged one.
EntryContents == {1, 2}

Callbacks == 1..MaxCallbacks

\* A set of mod configs: each itemID is absent (0) or present with a content.
FragmentInputs == [Items -> {0} \cup EntryContents]

\* ------------------------------------------------------------------- state
VARIABLES
    frags,          \* mod configs on disk (real filesystem and game VFS)
    resMapExists,   \* res_map.json exists in res_mods
    resMap,         \* its content: a set of <<key, entry>> ({} when absent)
    restartFlag,    \* RESTART_FLAG_FILE exists
    pc,             \* "start": pipeline not run yet; "done": pipeline ended,
                    \* process running; "restarting": BigWorld.restartGame ran
    status,         \* "Pending" | "Validated"
    queue,          \* callbacks waiting for validation, in registration order
    invoked,        \* log of callback invocations of this lifetime:
                    \* <<callback, "notify" | "sync">>
    registered,     \* log of on_ready calls of this lifetime:
                    \* <<callback, status at the call>>
    lifetime,       \* number of the current process lifetime
    flagSignals,    \* BigWorld.restartGame calls since the flag was created
    run,            \* what the pipeline run of this lifetime did
    prev            \* what the pipeline run of the previous lifetime did

vars == <<frags, resMapExists, resMap, restartFlag, pc, status, queue, invoked,
          registered, lifetime, flagSignals, run, prev>>

\* The state of one merge pass looked at item by item, and of the lookups
\* made against its result.
VARIABLES
    input,          \* the items of the mod configs, in the order they are read:
                    \* [frag, id, v]
    bad,            \* the config files that fail to parse
    mpc,            \* "idle" | "loaded" | "merged" | "validated"
    merged,         \* the result of the merge pass
    rerun,          \* a second merge pass over edited mod configs
    query,          \* the last lookup and its result
    accessors,      \* the ModDynAccessor objects created so far
    waiting         \* the accessors waiting for on_ready, in creation order

mergeVars == <<input, bad, mpc, merged, rerun, query, accessors, waiting>>

\* The state of one write of res_map.json and of a reader of that path.
VARIABLES
    path,           \* the file at the res_map.json path: a sequence of entries
    pathExists,     \* whether that file exists
    temp,           \* the temporary file of a write in progress
    tempExists,     \* whether that file exists
    wpc,            \* the writer: "idle" | "writing" | "written" | "crashed"
    observed,       \* what a reader of the path has seen during this write
    candidate,      \* the catalog being written
    previous        \* the file at the path when the write began

storeVars == <<path, pathExists, temp, tempExists, wpc, observed, candidate, previous>>

\* The state of gui/gameface/js/index.js in one Gameface view.
VARIABLES
    subViews,       \* window.subViews: resId -> the subview's ModInjectModel
    injectedResIds, \* the Set of the same name
    body,           \* the elements appended to document.body, in order
    jpc,            \* "loading": engine.whenReady pending; "ready": resolved
    missed,         \* the resIds some call of injectModAssets found without
                    \* ModInjectModel
    calls           \* resId -> the calls of injectModAssets(resId) made while
                    \* the subview carried a ModInjectModel

injectVars == <<subViews, injectedResIds, body, jpc, calls, missed>>

\* The state of one MediaContext of mods/libs/media.js and of the engine's
\* handlers for its two events.
VARIABLES
    width,          \* context.width
    height,         \* context.height
    scale,          \* context.scale
    onUpdateCallbacks, \* the callbacks given to onUpdate, in order
    handlers,       \* engine.on: the <<event, function>> pairs registered
    binds,          \* the functions made by .bind(this) so far
    notified,       \* the calls of onUpdate callbacks so far
    mediaSub,       \* the last of subscribe / unsubscribe: "none" | "on" | "off"
    mediaReady      \* engine.whenReady has resolved

mediaVars == <<width, height, scale, onUpdateCallbacks, handlers, binds, notified, mediaSub,
               mediaReady>>

\* The state of one ModelObserver(featureName) of mods/libs/model.js, of the
\* engine and of viewEnv.
VARIABLES
    obsResId,       \* context.resId
    callbackId,     \* context.callbackId: <<>> is null
    boundOnDataChanged, \* context._boundOnDataChanged is set
    engineOn,       \* the handlers of "viewEnv.onDataChanged" registered
    viewEnvCallbacks, \* the <<callbackId, resId>> registered with viewEnv
    obsReady,       \* engine.whenReady has resolved and the resId was looked up
    named,          \* the resIds of the subviews whose ModInjectModel.name is featureName
    issued,         \* the <<callbackId, resId>> of the observer's last registration
    received        \* the model the last notification handed to the callbacks

observerVars == <<obsResId, callbackId, boundOnDataChanged, engineOn, viewEnvCallbacks,
                  obsReady, named, issued, received>>

\* The state of one call of debugObject of mods/libs/debug.js.
VARIABLES
    graph,          \* the object graph: node -> the nodes of its properties
    maxDepth,       \* options.maxDepth
    stack,          \* the active calls: [node, currentDepth, next]
    logged          \* the lines written, as <<currentDepth, what>>

debugVars == <<graph, maxDepth, stack, logged>>

libVars == <<mediaVars, observerVars, debugVars>>

\* Each part of the model runs with the other parts at rest.
MergeIdle ==
    /\ input = <<>> /\ bad = {} /\ mpc = "idle" /\ merged = <<>> /\ rerun = <<>>
    /\ query = <<>> /\ accessors = <<>> /\ waiting = <<>>

StoreIdle ==
    /\ path = <<>> /\ pathExists = FALSE /\ temp = <<>> /\ tempExists = FALSE
    /\ wpc = "idle" /\ observed = <<>> /\ candidate = <<>>
    /\ previous = [exists |-> FALSE, content |-> <<>>]

InjectIdle ==
    /\ subViews = <<>> /\ injectedResIds = {} /\ body = <<>> /\ jpc = "idle"
    /\ calls = <<>> /\ missed = {}

MediaIdle ==
    /\ width = 0 /\ height = 0 /\ scale = 0 /\ onUpdateCallbacks = <<>>
    /\ handlers = {} /\ binds = 0 /\ notified = 0 /\ mediaSub = "none"
    /\ mediaReady = FALSE

ObserverIdle ==
    /\ obsResId = 0 /\ callbackId = <<>> /\ boundOnDataChanged = FALSE
    /\ engineOn = 0 /\ viewEnvCallbacks = {} /\ obsReady = FALSE /\ named = {}
    /\ issued = <<>> /\ received = <<>>

DebugIdle ==
    /\ graph = <<>> /\ maxDepth = 0 /\ stack = <<>> /\ logged = <<>>

LibIdle == MediaIdle /\ ObserverIdle /\ DebugIdle

\* The parts at rest beside each library object.
BesideMedia == <<vars, mergeVars, storeVars, injectVars, observerVars, debugVars>>
BesideObserver == <<vars, mergeVars, storeVars, injectVars, mediaVars, debugVars>>
BesideDebug == <<vars, mergeVars, storeVars, injectVars, mediaVars, observerVars>>

\* ---------------------------------------------------------------- catalogs
\* The game's original res_map.json: keys 1 and 2, never changed by the mod.
OriginalCatalog == {<<1, 0>>, <<2, 0>>}

\* The generated key of an item: derived from the item alone.
GeneratedKey(i) == 10 + i

\* "Create combined res_map.json from original and mod configs": the original
\* entries plus one entry per item, under the item's generated key.
CreateCombined(f) ==
    OriginalCatalog \cup {<<GeneratedKey(i), f[i]>> : i \in {j \in Items : f[j] # 0}}

\* "Any available mod config files?"
AnyModConfigs(f) == \E i \in Items : f[i] # 0

\* "Is existing res_map.json identical to combined res_map.json?"
IsIdenticalMutant(existing, combined) == FALSE

IsIdenticalSubsetMutant(existing, combined) == existing \subseteq combined

IsIdentical(existing, combined) == existing = combined

\* ---------------------------------------------------------------- pipeline
\* The branch of the flow diagram a run takes:
\*   "end"       no mod configs, no res_map.json in res_mods       (C-No, D-No)
\*   "delete"    no mod configs, res_map.json in res_mods          (C-No, D-Yes)
\*   "store"     mod configs, res_map.json missing or different    (H-No / K-No)
\*   "validated" mod configs, res_map.json identical to combined   (K-Yes)
FlowBranch(f, exists, existing) ==
    IF ~AnyModConfigs(f)
    THEN IF exists THEN "delete" ELSE "end"
    ELSE IF exists /\ IsIdentical(existing, CreateCombined(f))
         THEN "validated"
         ELSE "store"

\* The branches that lead to "Restart Client Process" (E --> A1, I --> A1).
EntersRestartClientMutant(branch) == branch = "store"

EntersRestartClient(branch) == branch \in {"delete", "store"}

\* The branches that set the status to "validated" (K-Yes --> L).
SetsValidatedMutant(branch) == branch \in {"validated", "end"}

SetsValidatedAfterStoreMutant(branch) == branch \in {"validated", "store"}

SetsValidated(branch) == branch = "validated"

\* The branches that delete RESTART_FLAG_FILE (L --> M).
DeletesRestartFlagMutant(branch) == branch \in {"validated", "store"}

DeletesRestartFlag(branch) == branch = "validated"

\* "RESTART_FLAG_FILE exists?": Yes ends the restart client process without
\* restarting the game.
RestartSuppressedMutant(flag) == FALSE

RestartSuppressed(flag) == flag

\* "notify subscribers": the queued callbacks, each once, in registration order.
NotifyOrder(q) == q

NotificationsMutant(q) ==
    [k \in 1..(2 * Len(q)) |-> <<(q \o q)[k], "notify">>]

Notifications(q) == [k \in 1..Len(NotifyOrder(q)) |-> <<NotifyOrder(q)[k], "notify">>]

\* The record of a lifetime in which the pipeline has not run yet.
NoRun == [ran |-> FALSE, branch |-> "none", found |-> FALSE, existed |-> FALSE,
          existing |-> {}, combined |-> {}, persistCalls |-> 0, deleteCalls |-> 0,
          restartRequests |-> 0, signalled |-> FALSE, flagBefore |-> FALSE,
          queued |-> <<>>]

\* The record of a previous lifetime that stored nothing (or of none).
NoPrev == [persisted |-> FALSE, frags |-> [i \in Items |-> 0], catalog |-> {}]

Init ==
    /\ frags \in FragmentInputs
    /\ resMapExists = FALSE
    /\ resMap = {}
    /\ restartFlag = FALSE
    /\ pc = "start"
    /\ status = "Pending"
    /\ queue = <<>>
    /\ invoked = <<>>
    /\ registered = <<>>
    /\ lifetime = 1
    /\ flagSignals = 0
    /\ run = NoRun
    /\ prev = NoPrev
    /\ MergeIdle /\ StoreIdle /\ InjectIdle /\ LibIdle

\* One run of the pipeline, from "Logic start" to "Logic end", the restart
\* client process included.
Run ==
    /\ pc = "start"
    /\ LET branch   == FlowBranch(frags, resMapExists, resMap)
           combined == CreateCombined(frags)
           request  == EntersRestartClient(branch)
           signal   == request /\ ~RestartSuppressed(restartFlag)
       IN  /\ resMapExists' = CASE branch = "delete" -> FALSE
                                [] branch = "store"  -> TRUE
                                [] OTHER             -> resMapExists
           /\ resMap' = CASE branch = "delete" -> {}
                          [] branch = "store"  -> combined
                          [] OTHER             -> resMap
           /\ status'  = IF SetsValidated(branch) THEN "Validated" ELSE status
           /\ invoked' = IF SetsValidated(branch)
                         THEN invoked \o Notifications(queue) ELSE invoked
           /\ queue'   = IF SetsValidated(branch) THEN <<>> ELSE queue
           /\ restartFlag' = IF signal THEN TRUE
                             ELSE IF DeletesRestartFlag(branch) THEN FALSE
                             ELSE restartFlag
           /\ flagSignals' = IF signal
                             THEN (IF restartFlag THEN flagSignals + 1 ELSE 1)
                             ELSE IF DeletesRestartFlag(branch) THEN 0
                             ELSE flagSignals
           /\ pc' = IF signal THEN "restarting" ELSE "done"
           /\ run' = [ran |-> TRUE, branch |-> branch,
                      found |-> AnyModConfigs(frags), existed |-> resMapExists,
                      existing |-> resMap, combined |-> combined,
                      persistCalls |-> IF branch = "store" THEN 1 ELSE 0,
                      deleteCalls |-> IF branch = "delete" THEN 1 ELSE 0,
                      restartRequests |-> IF request THEN 1 ELSE 0,
                      signalled |-> signal, flagBefore |-> restartFlag,
                      queued |-> queue]
    /\ UNCHANGED <<frags, registered, lifetime, prev>>
    /\ UNCHANGED <<mergeVars, storeVars, injectVars, libVars>>

\* on_ready(callback): "If validation has already occurred, the callback is
\* executed immediately"; otherwise it waits for the validation.
OnReadyMutant(cb) ==
    /\ \A k \in 1..Len(registered) : registered[k][1] # cb
    /\ registered' = Append(registered, <<cb, status>>)
    /\ queue' = Append(queue, cb)
    /\ invoked' = invoked
    /\ UNCHANGED <<frags, resMapExists, resMap, restartFlag, pc, status, lifetime,
                   flagSignals, run, prev>>
    /\ UNCHANGED <<mergeVars, storeVars, injectVars, libVars>>

OnReady(cb) ==
    /\ \A k \in 1..Len(registered) : registered[k][1] # cb
    /\ registered' = Append(registered, <<cb, status>>)
    /\ IF status = "Validated"
       THEN /\ invoked' = Append(invoked, <<cb, "sync">>)
            /\ queue' = queue
       ELSE /\ queue' = Append(queue, cb)
            /\ invoked' = invoked
    /\ UNCHANGED <<frags, resMapExists, resMap, restartFlag, pc, status, lifetime,
                   flagSignals, run, prev>>
    /\ UNCHANGED <<mergeVars, storeVars, injectVars, libVars>>

\* What a new process starts with: the disk as it is, the memory reset.
NewProcess ==
    /\ lifetime < MaxLifetimes
    /\ lifetime' = lifetime + 1
    /\ pc' = "start"
    /\ status' = "Pending"
    /\ queue' = <<>>
    /\ invoked' = <<>>
    /\ registered' = <<>>
    /\ run' = NoRun
    /\ prev' = IF run.persistCalls > 0
               THEN [persisted |-> TRUE, frags |-> frags, catalog |-> resMap]
               ELSE NoPrev
    /\ UNCHANGED <<resMapExists, resMap, restartFlag, flagSignals>>
    /\ UNCHANGED <<mergeVars, storeVars, injectVars, libVars>>

\* BigWorld.restartGame: the client restarts over the same mod configs.
RestartGame ==
    /\ pc = "restarting"
    /\ NewProcess
    /\ frags' = frags

\* The player closes the client and starts it again later, with the same or
\* with other mods installed.
Relaunch ==
    /\ pc = "done"
    /\ NewProcess
    /\ frags' \in FragmentInputs

Next ==
    \/ Run
    \/ \E cb \in Callbacks : OnReady(cb)
    \/ RestartGame
    \/ Relaunch

Spec == Init /\ [][Next]_vars

\* ================================================================== claims
\* The callbacks registered while the status was st, in registration order.
RegisteredWhile(st) ==
    LET sel == SelectSeq(registered, LAMBDA e : e[2] = st)
    IN  [k \in 1..Len(sel) |-> sel[k][1]]

\* The invocations of the sequence of callbacks q, each tagged how.
Tagged(q, how) == [k \in 1..Len(q) |-> <<q[k], how>>]

\* C1. Idempotence: when the run of the previous lifetime stored its combined
\* catalog and the mod configs are unchanged, the run of this lifetime builds
\* the same combined catalog, leaves the stored one as it is, stores nothing
\* and does not enter the restart client process.
C1_Idempotence ==
    (run.ran /\ prev.persisted /\ prev.frags = frags) =>
        /\ run.combined = prev.catalog
        /\ resMapExists /\ resMap = prev.catalog
        /\ run.persistCalls = 0
        /\ run.restartRequests = 0
        /\ ~run.signalled

C1_Witness ==
    /\ run.ran /\ prev.persisted /\ prev.frags = frags
    /\ run.branch = "validated"
    /\ Cardinality(prev.catalog) = Cardinality(OriginalCatalog) + MaxItems

\* C2. Change detection: in a run that found mod configs and an existing
\* res_map.json, an identical combined catalog is not stored and no restart is
\* requested; a combined catalog that differs is stored and the restart client
\* process is entered exactly once.
C2_ChangeDetection ==
    (run.ran /\ run.found /\ run.existed) =>
        IF run.existing = run.combined
        THEN run.persistCalls = 0 /\ run.restartRequests = 0 /\ resMap = run.existing
        ELSE run.persistCalls = 1 /\ run.restartRequests = 1 /\ resMap = run.combined

\* A run whose combined catalog differs from the stored one in one entry only.
C2_Witness ==
    /\ run.ran /\ run.found /\ run.existed
    /\ run.existing # run.combined
    /\ Cardinality(run.combined \ run.existing) = 1
    /\ run.existing \subseteq run.combined

\* C3 as stated. No-fragment cleanup: a run that finds no mod configs and an
\* existing res_map.json deletes it and ends without requesting a restart: the
\* restart client process is not entered and the run creates no restart flag.
C3_AsStated ==
    (run.ran /\ ~run.found /\ run.existed) =>
        /\ ~resMapExists
        /\ run.restartRequests = 0
        /\ ~run.signalled
        /\ (restartFlag => run.flagBefore)

\* C3 as amended. A run that finds no mod configs and an existing res_map.json
\* deletes it, stores nothing, leaves the status Pending and enters the
\* restart client process once: with the restart flag absent the flag is
\* created and the game restarted, with the flag present nothing more happens.
C3_CleanupThenRestart ==
    (run.ran /\ ~run.found /\ run.existed) =>
        /\ ~resMapExists /\ resMap = {}
        /\ run.deleteCalls = 1 /\ run.persistCalls = 0
        /\ run.restartRequests = 1
        /\ run.signalled = ~run.flagBefore
        /\ restartFlag
        /\ status = "Pending"

C3_Witness ==
    /\ run.ran /\ ~run.found /\ run.existed
    /\ run.existing # {}
    /\ ~resMapExists
    /\ run.signalled /\ pc = "restarting"

\* C4. Readiness ordering: while the status is Pending every registered
\* callback waits in the queue, in registration order, and none has been
\* invoked; once the status is Validated the invocation log is the callbacks
\* registered while Pending, each once and in registration order, followed by
\* the callbacks registered after the validation, each invoked within its
\* on_ready call, and nothing is queued.
C4_ReadinessOrdering ==
    /\ status = "Pending" =>
          /\ invoked = <<>>
          /\ queue = RegisteredWhile("Pending")
          /\ RegisteredWhile("Validated") = <<>>
    /\ status = "Validated" =>
          /\ invoked = Tagged(RegisteredWhile("Pending"), "notify")
                          \o Tagged(RegisteredWhile("Validated"), "sync")
          /\ queue = <<>>

\* Two callbacks registered before the validation, out of numeric order, and
\* one after it.
C4_Witness ==
    /\ status = "Validated"
    /\ Len(RegisteredWhile("Pending")) = 2
    /\ RegisteredWhile("Pending")[1] > RegisteredWhile("Pending")[2]
    /\ Len(RegisteredWhile("Validated")) = 1
    /\ Len(invoked) = 3

\* C5 as stated. Every run that ends on one of the branches "no mod configs,
\* no res_map.json", "no mod configs, res_map.json deleted" or "combined
\* identical to res_map.json" sets the status to Validated and invokes the
\* callbacks that were queued.
C5_AsStated ==
    (run.ran /\ run.branch \in {"end", "delete", "validated"}) =>
        /\ status = "Validated"
        /\ SubSeq(invoked, 1, Len(run.queued)) = Tagged(run.queued, "notify")

\* C5 as amended. A run sets the status to Validated exactly when it found mod
\* configs and the combined catalog is identical to the existing
\* res_map.json; that run requests no restart and invokes every queued
\* callback. On every other branch the status stays Pending and no callback
\* is invoked in that lifetime.
C5_ValidatedOnlyWhenIdentical ==
    run.ran =>
        /\ (status = "Validated") =
              (run.found /\ run.existed /\ run.existing = run.combined)
        /\ status = "Validated" =>
              /\ run.restartRequests = 0
              /\ SubSeq(invoked, 1, Len(run.queued)) = Tagged(run.queued, "notify")
              /\ queue = <<>>
        /\ status = "Pending" =>
              /\ invoked = <<>>
              /\ SubSeq(queue, 1, Len(run.queued)) = run.queued

C5_Witness ==
    /\ run.ran /\ run.branch = "validated"
    /\ status = "Validated"
    /\ Len(run.queued) = 2
    /\ Len(invoked) = 2

\* C6. In a lifetime whose run stored a combined catalog (none existed, or the
\* existing one differed) the status stays Pending and no callback is invoked,
\* whether it registered before or after the run.
C6_NoCallbacksAfterStore ==
    (run.ran /\ run.found /\ (~run.existed \/ run.existing # run.combined)) =>
        /\ run.restartRequests = 1
        /\ status = "Pending"
        /\ invoked = <<>>
        /\ queue = RegisteredWhile("Pending")
        /\ Len(queue) = Len(registered)

\* A callback registered before the run and one after it, both still queued.
C6_Witness ==
    /\ run.ran /\ run.branch = "store"
    /\ Len(run.queued) = 1
    /\ Len(registered) = 2
    /\ invoked = <<>>

\* C7. Between the creation of the restart flag and its deletion the game is
\* restarted at most once; a request that finds the flag present restarts
\* nothing, leaves the flag in place and the process running.
C7_AtMostOneRestartPerFlag ==
    /\ flagSignals <= 1
    /\ restartFlag = (flagSignals = 1)
    /\ (run.ran /\ run.restartRequests = 1 /\ run.flagBefore) =>
          /\ ~run.signalled
          /\ restartFlag
          /\ pc = "done"

\* A request made in a later lifetime than the one that created the flag.
C7_Witness ==
    /\ run.ran /\ run.restartRequests = 1 /\ run.flagBefore
    /\ ~run.signalled
    /\ lifetime > 1

\* C8 as stated. Whenever a run stores a new combined catalog, the game is
\* restarted.
C8_StoreAlwaysRestarts ==
    (run.ran /\ run.persistCalls = 1) => (run.signalled /\ pc = "restarting")

\* C9. The restart flag is deleted only by a run that set the status to
\* Validated, which stored nothing and requested no restart; the flag is
\* created only by the restart client process as it restarts the game, and
\* the process is ended only by that restart.
C9_FlagDeletedOnlyByValidation ==
    [][ /\ (restartFlag /\ ~restartFlag') =>
              /\ run'.ran /\ ~run.ran
              /\ status' = "Validated"
              /\ run'.existing = run'.combined
              /\ run'.persistCalls = 0 /\ run'.restartRequests = 0
        /\ (~restartFlag /\ restartFlag') =>
              /\ run'.restartRequests = 1
              /\ run'.signalled /\ pc' = "restarting"
        /\ (pc' = "restarting") => restartFlag'
        /\ (run'.ran /\ ~run.ran /\ (run'.persistCalls = 1 \/ run'.restartRequests = 1)) =>
              (restartFlag => restartFlag')
      ]_vars

\* A validated run that found the flag and deleted it.
C9_Witness ==
    /\ run.ran /\ run.branch = "validated"
    /\ run.flagBefore
    /\ ~restartFlag

\* C10. Within a process lifetime the status changes only from Pending to
\* Validated and only in the pipeline run; after the run the queue is never
\* drained again, and no callback is invoked twice.
C10_ValidatedOnce ==
    [][ /\ (lifetime' = lifetime) =>
              /\ (status = "Validated" => status' = "Validated")
              /\ (status' # status => (~run.ran /\ run'.ran))
              /\ (run.ran => /\ Len(queue') >= Len(queue)
                             /\ SubSeq(queue', 1, Len(queue)) = queue)
        /\ \A j, k \in 1..Len(invoked') : invoked'[j][1] = invoked'[k][1] => j = k
      ]_vars

\* The queue of two callbacks was drained and a third callback ran afterwards.
C10_Witness ==
    /\ status = "Validated"
    /\ Len(run.queued) = 2
    /\ Len(invoked) = 3

\* ============================================================ merge pass
\* The lifecycle above treats "Create combined res_map.json" as one step over
\* items that never collide.  This part looks at that step item by item.

MaxEntries == 3   \* items in all mod configs together

\* The parts at rest that the lifecycle uses.
CoreIdle ==
    /\ frags = [i \in Items |-> 0]
    /\ resMapExists = FALSE /\ resMap = {} /\ restartFlag = FALSE
    /\ pc = "idle" /\ status = "Pending"
    /\ queue = <<>> /\ invoked = <<>> /\ registered = <<>>
    /\ lifetime = 1 /\ flagSignals = 0
    /\ run = NoRun /\ prev = NoPrev

\* itemIDs are strings, written as sequences of letters 1 and 2.  The first
\* two have the same hash, which is also a key of the original catalog; the
\* third has a hash of its own.
ItemIDs == {<<1>>, <<1, 2, 2>>, <<1, 2>>}

\* An item without a well-formed string itemID.
NoItemID == <<>>

\* The config files, in the order they are read.
ConfigFiles == {1, 2}

ConfigItems == [frag : ConfigFiles, id : ItemIDs \cup {NoItemID}, v : EntryContents]

\* The items of all config files in reading order: file 1 before file 2.
MergeInputs ==
    {in \in UNION {[1..n -> ConfigItems] : n \in 0..MaxEntries} :
        \A k \in 1..(Len(in) - 1) : in[k].frag <= in[k + 1].frag}

\* ------------------------------------------------------- Fragment Loader
\* The accepted items and the reported errors: the items of a file that fails
\* to parse are not seen, an item without itemID is skipped, an itemID seen
\* before is skipped, the first occurrence wins.
RECURSIVE LoadKeepingDuplicates(_, _, _, _, _)
LoadKeepingDuplicates(in, b, k, acc, errs) ==
    IF k > Len(in) THEN [accepted |-> acc, errors |-> errs]
    ELSE IF in[k].frag \in b THEN LoadKeepingDuplicates(in, b, k + 1, acc, errs)
    ELSE IF in[k].id = NoItemID
         THEN LoadKeepingDuplicates(in, b, k + 1, acc, Append(errs, <<"InvalidItemError", k>>))
    ELSE LoadKeepingDuplicates(in, b, k + 1, Append(acc, in[k]), errs)

RECURSIVE LoadStoppingAtInvalid(_, _, _, _, _)
LoadStoppingAtInvalid(in, b, k, acc, errs) ==
    IF k > Len(in) THEN [accepted |-> acc, errors |-> errs]
    ELSE IF in[k].frag \in b THEN LoadStoppingAtInvalid(in, b, k + 1, acc, errs)
    ELSE IF in[k].id = NoItemID
         THEN [accepted |-> acc, errors |-> Append(errs, <<"InvalidItemError", k>>)]
    ELSE IF \E j \in 1..Len(acc) : acc[j].id = in[k].id
         THEN LoadStoppingAtInvalid(in, b, k + 1, acc,
                                    Append(errs, <<"DuplicateIdentifierError", k>>))
    ELSE LoadStoppingAtInvalid(in, b, k + 1, Append(acc, in[k]), errs)

RECURSIVE LoadFrom(_, _, _, _, _)
LoadFrom(in, b, k, acc, errs) ==
    IF k > Len(in) THEN [accepted |-> acc, errors |-> errs]
    ELSE IF in[k].frag \in b THEN LoadFrom(in, b, k + 1, acc, errs)
    ELSE IF in[k].id = NoItemID
         THEN LoadFrom(in, b, k + 1, acc, Append(errs, <<"InvalidItemError", k>>))
    ELSE IF \E j \in 1..Len(acc) : acc[j].id = in[k].id
         THEN LoadFrom(in, b, k + 1, acc, Append(errs, <<"DuplicateIdentifierError", k>>))
    ELSE LoadFrom(in, b, k + 1, Append(acc, in[k]), errs)

LoadFragments(in, b) == LoadFrom(in, b, 1, <<>>, <<>>)

\* ---------------------------------------------------------- Key Allocator
RECURSIVE SumOf(_)
SumOf(str) == IF str = <<>> THEN 0 ELSE Head(str) + SumOf(Tail(str))

\* A fixed-width hash of the itemID string: one digit.
Hash(id) == SumOf(id) % 4

\* The key extended with a suffix counter.
WithSuffix(h, n) == h * 10 + n

RECURSIVE FirstFree(_, _, _)
FirstFree(h, n, used) ==
    IF WithSuffix(h, n) \notin used THEN WithSuffix(h, n) ELSE FirstFree(h, n + 1, used)

\* The key of an item: its hash, and on a collision with a key in use the hash
\* extended with an incrementing suffix counter until unique.
AllocateKeyMutant(id, used) == Hash(id)

AllocateKey(id, used) ==
    IF Hash(id) \notin used THEN Hash(id) ELSE FirstFree(Hash(id), 1, used)

KeysOf(catalog) == {e[1] : e \in catalog}

\* The identifier the resource store gives the entry under a key.
ResourceId(key) == 100 + key

\* ---------------------------------------------------------- Catalog Merger
\* The original entries unchanged, plus one entry per accepted item under its
\* allocated key; the IdentifierIndex gets the item's itemID in that order.
RECURSIVE MergeFrom(_, _, _, _, _)
MergeFrom(acc, k, keys, catalog, index) ==
    IF k > Len(acc) THEN [keys |-> keys, catalog |-> catalog, index |-> index]
    ELSE LET key == AllocateKey(acc[k].id, KeysOf(catalog))
         IN  MergeFrom(acc, k + 1, Append(keys, key),
                       catalog \cup {<<key, acc[k].v>>},
                       Append(index, <<acc[k].id, ResourceId(key)>>))

MergeResult(in, b) ==
    LET loaded == LoadFragments(in, b)
        m      == MergeFrom(loaded.accepted, 1, <<>>, OriginalCatalog, <<>>)
    IN  [accepted |-> loaded.accepted, errors |-> loaded.errors,
         parseErrors |-> b,
         keys |-> m.keys, catalog |-> m.catalog, index |-> m.index]

InitMerge ==
    /\ CoreIdle /\ StoreIdle /\ InjectIdle /\ LibIdle
    /\ input \in MergeInputs
    /\ bad \in SUBSET ConfigFiles
    /\ mpc = "loaded"
    /\ merged = <<>> /\ rerun = <<>> /\ query = <<>>
    /\ accessors = <<>> /\ waiting = <<>>

\* One merge pass over the mod configs.
MergePass ==
    /\ mpc = "loaded"
    /\ mpc' = "merged"
    /\ merged' = MergeResult(input, bad)
    /\ UNCHANGED <<input, bad, rerun, query, accessors, waiting>>
    /\ UNCHANGED <<vars, storeVars, injectVars, libVars>>

NextMerge == MergePass

SpecMerge == InitMerge /\ [][NextMerge]_mergeVars

\* C11. Uniqueness: after a merge with N accepted items the combined catalog
\* holds every original entry unchanged plus exactly N generated keys, which
\* are pairwise distinct and distinct from every original key, each with the
\* content of its item.
C11_Uniqueness ==
    mpc = "merged" =>
        LET n == Len(merged.accepted)
        IN  /\ Len(merged.keys) = n
            /\ \A j, k \in 1..n : merged.keys[j] = merged.keys[k] => j = k
            /\ \A k \in 1..n : merged.keys[k] \notin KeysOf(OriginalCatalog)
            /\ OriginalCatalog \subseteq merged.catalog
            /\ merged.catalog =
                  OriginalCatalog \cup {<<merged.keys[k], merged.accepted[k].v>> : k \in 1..n}
            /\ Cardinality(KeysOf(merged.catalog)) = Cardinality(OriginalCatalog) + n
            /\ Cardinality(merged.catalog) = Cardinality(OriginalCatalog) + n

\* Three accepted items: two whose hashes collide with each other and with an
\* original key, so that the suffix counter is incremented twice.
C11_Witness ==
    /\ mpc = "merged"
    /\ Len(merged.accepted) = 3
    /\ \E j, k \in 1..3 : j # k /\ Hash(merged.accepted[j].id) = Hash(merged.accepted[k].id)
    /\ \E k \in 1..3 : merged.keys[k] = WithSuffix(Hash(merged.accepted[k].id), 2)

\* ------------------------------------------------- a second merge pass
\* The sequence without its k-th element.
RemoveAt(in, k) == [j \in 1..(Len(in) - 1) |-> IF j < k THEN in[j] ELSE in[j + 1]]

\* The sequence with its k-th and (k+1)-th elements exchanged.
SwapAt(in, k) ==
    [j \in 1..Len(in) |-> IF j = k THEN in[k + 1] ELSE IF j = k + 1 THEN in[k] ELSE in[j]]

\* The mod configs after one edit: an item removed, an item renamed, the
\* content of an item changed, or two items of one file reordered.
EditedInputs(in) ==
    {RemoveAt(in, k) : k \in 1..Len(in)}
    \cup {[in EXCEPT ![k].id = id] : k \in 1..Len(in), id \in ItemIDs}
    \cup {[in EXCEPT ![k].v = v] : k \in 1..Len(in), v \in EntryContents}
    \cup {SwapAt(in, k) : k \in {j \in 1..(Len(in) - 1) : in[j].frag = in[j + 1].frag}}

\* The client is started again over edited mod configs and merges them.
MergeEdited ==
    /\ mpc = "merged"
    /\ rerun = <<>>
    /\ \E in2 \in EditedInputs(input) \ {input} :
          rerun' = [input |-> in2, merged |-> MergeResult(in2, bad)]
    /\ UNCHANGED <<input, bad, mpc, merged, query, accessors, waiting>>
    /\ UNCHANGED <<vars, storeVars, injectVars, libVars>>

NextRerun ==
    \/ MergePass
    \/ MergeEdited

SpecRerun == InitMerge /\ [][NextRerun]_mergeVars

\* C12 as stated. Key locality: an item accepted with the same itemID and the
\* same content in two merge passes whose mod configs differ by one edit of
\* other items has the same generated key in both.
C12_KeyLocality ==
    rerun # <<>> =>
        \A j \in 1..Len(merged.accepted), k \in 1..Len(rerun.merged.accepted) :
            (merged.accepted[j].id = rerun.merged.accepted[k].id
                /\ merged.accepted[j].v = rerun.merged.accepted[k].v)
            => merged.keys[j] = rerun.merged.keys[k]

\* ======================================================= Readiness Broker
MaxAccessors == 2   \* ModDynAccessor objects created in one lifetime

\* What res_id_by_key returns for a key that is not found.
NotFound == -1

\* INVALID_RES_ID of gui.impl.gen_utils.
InvalidResId == 0

\* The keys and masks looked up: the itemIDs, strings that are no itemID and
\* strings that are part of one.
LookupKeys == ItemIDs \cup {<<2, 2>>}

LookupMasks == {<<>>, <<1>>, <<2>>, <<1, 2>>, <<2, 2>>, <<2, 1>>}

\* The itemIDs accessors are created for: one that may be in the mod configs
\* and one that never is.
AccessorIDs == {<<1, 2>>, <<2, 2>>}

\* For the lookups the content of an item and its file do not matter.
BrokerInputs == {in \in MergeInputs : \A k \in 1..Len(in) : in[k].frag = 1 /\ in[k].v = 1}

\* The IdentifierIndex the lookups read: the snapshot taken when the
\* validation succeeds, empty before.
BrokerIndexMutant(at, m) == IF at \in {"merged", "validated"} THEN m.index ELSE <<>>

BrokerIndex(at, m) == IF at = "validated" THEN m.index ELSE <<>>

\* res_id_by_key: exact match of the itemID.
ResolveByKey(index, key) ==
    IF \E k \in 1..Len(index) : index[k][1] = key
    THEN index[CHOOSE k \in 1..Len(index) : index[k][1] = key][2]
    ELSE NotFound

\* Whether str contains sub as a substring.
Contains(str, sub) ==
    \E off \in 0..(Len(str) - Len(sub)) : SubSeq(str, off + 1, off + Len(sub)) = sub

StartsWith(str, sub) ==
    Len(sub) <= Len(str) /\ SubSeq(str, 1, Len(sub)) = sub

\* res_ids_by_mask: the (itemID, identifier) pairs whose itemID contains the
\* mask, in the order of the index.
ResolveByMaskMutant(index, mask) == SelectSeq(index, LAMBDA e : StartsWith(e[1], mask))

ResolveByMask(index, mask) == SelectSeq(index, LAMBDA e : Contains(e[1], mask))

\* What an accessor binds to: the identifier of its itemID, or INVALID_RES_ID.
BoundIdMutant(index, id) == ResolveByKey(index, id)

BoundId(index, id) ==
    IF ResolveByKey(index, id) = NotFound THEN InvalidResId ELSE ResolveByKey(index, id)

InitBroker ==
    /\ CoreIdle /\ StoreIdle /\ InjectIdle /\ LibIdle
    /\ input \in BrokerInputs
    /\ bad = {}
    /\ mpc = "loaded"
    /\ merged = <<>> /\ rerun = <<>> /\ query = <<>>
    /\ accessors = <<>> /\ waiting = <<>>

\* The validation succeeds: the status is set to validated and the
\* subscribers are notified, among them the accessors that wait.
Validate ==
    /\ mpc = "merged"
    /\ mpc' = "validated"
    /\ accessors' = [k \in 1..Len(accessors) |->
                        IF \E w \in 1..Len(waiting) : waiting[w] = k
                        THEN [id    |-> accessors[k].id,
                              resId |-> BoundId(BrokerIndex("validated", merged), accessors[k].id),
                              bound |-> TRUE]
                        ELSE accessors[k]]
    /\ waiting' = <<>>
    /\ UNCHANGED <<input, bad, merged, rerun, query>>
    /\ UNCHANGED <<vars, storeVars, injectVars, libVars>>

\* res_id_by_key(key), at any time.
ResIdByKey(key) ==
    /\ mpc # "idle"
    /\ query' = [kind |-> "key", arg |-> key, at |-> mpc,
                 result |-> ResolveByKey(BrokerIndex(mpc, merged), key)]
    /\ UNCHANGED <<input, bad, mpc, merged, rerun, accessors, waiting>>
    /\ UNCHANGED <<vars, storeVars, injectVars, libVars>>

\* res_ids_by_mask(mask), at any time; the iterator is run to its end.
ResIdsByMask(mask) ==
    /\ mpc # "idle"
    /\ query' = [kind |-> "mask", arg |-> mask, at |-> mpc,
                 result |-> ResolveByMask(BrokerIndex(mpc, merged), mask)]
    /\ UNCHANGED <<input, bad, mpc, merged, rerun, accessors, waiting>>
    /\ UNCHANGED <<vars, storeVars, injectVars, libVars>>

\* ModDynAccessor(id): resolves at once when the validation has occurred,
\* otherwise registers with on_ready and stays unresolved.
NewAccessorMutant(id) ==
    /\ mpc # "idle"
    /\ Len(accessors) < MaxAccessors
    /\ accessors' = Append(accessors, [id |-> id, resId |-> InvalidResId, bound |-> FALSE])
    /\ waiting' = Append(waiting, Len(accessors) + 1)
    /\ UNCHANGED <<input, bad, mpc, merged, rerun, query>>
    /\ UNCHANGED <<vars, storeVars, injectVars, libVars>>

NewAccessor(id) ==
    /\ mpc # "idle"
    /\ Len(accessors) < MaxAccessors
    /\ IF mpc = "validated"
       THEN /\ accessors' = Append(accessors,
                               [id |-> id,
                                resId |-> BoundId(BrokerIndex(mpc, merged), id),
                                bound |-> TRUE])
            /\ waiting' = waiting
       ELSE /\ accessors' = Append(accessors,
                               [id |-> id, resId |-> InvalidResId, bound |-> FALSE])
            /\ waiting' = Append(waiting, Len(accessors) + 1)
    /\ UNCHANGED <<input, bad, mpc, merged, rerun, query>>
    /\ UNCHANGED <<vars, storeVars, injectVars, libVars>>

NextBroker ==
    \/ MergePass
    \/ Validate
    \/ \E key \in LookupKeys : ResIdByKey(key)
    \/ \E mask \in LookupMasks : ResIdsByMask(mask)
    \/ \E id \in AccessorIDs : NewAccessor(id)

SpecBroker == InitBroker /\ [][NextBroker]_mergeVars

\* The positions of the accepted items, in allocation order, whose itemID
\* satisfies Test.
AcceptedWhere(Test(_)) == {k \in 1..Len(merged.accepted) : Test(merged.accepted[k].id)}

\* C13. res_id_by_key always returns a value: before the validation the
\* not-found value for every key, after it the identifier of the accepted item
\* whose itemID is exactly the key, and the not-found value when there is none.
C13_ResolveByKey ==
    (query # <<>> /\ query.kind = "key") =>
        /\ query.result \in Int
        /\ query.at # "validated" => query.result = NotFound
        /\ query.at = "validated" =>
              LET hits == AcceptedWhere(LAMBDA id : id = query.arg)
              IN  /\ hits = {} => query.result = NotFound
                  /\ \A k \in hits : query.result = ResourceId(merged.keys[k])

\* A lookup of an accepted itemID after the merge and before the validation.
C13_Witness ==
    /\ query # <<>> /\ query.kind = "key"
    /\ query.at = "merged"
    /\ \E k \in 1..Len(merged.accepted) : merged.accepted[k].id = query.arg
    /\ query.result = NotFound

\* C14. After the validation res_ids_by_mask(s) yields exactly the pairs
\* (itemID, identifier) of the accepted items whose itemID contains s, each
\* once and in allocation order, and nothing when no itemID contains s.
C14_ResolveByMask ==
    (query # <<>> /\ query.kind = "mask" /\ query.at = "validated") =>
        LET hits == AcceptedWhere(LAMBDA id : Contains(id, query.arg))
            res  == query.result
        IN  /\ Len(res) = Cardinality(hits)
            /\ \A k \in hits : \E r \in 1..Len(res) :
                  res[r] = <<merged.accepted[k].id, ResourceId(merged.keys[k])>>
            /\ \A r1, r2 \in 1..Len(res) : r1 < r2 =>
                  \E k1, k2 \in hits :
                      /\ k1 < k2
                      /\ res[r1][1] = merged.accepted[k1].id
                      /\ res[r2][1] = merged.accepted[k2].id

\* A mask inside two of three itemIDs and at the start of neither.
C14_Witness ==
    /\ query # <<>> /\ query.kind = "mask" /\ query.at = "validated"
    /\ query.arg = <<2>>
    /\ Len(merged.accepted) = 3
    /\ Len(query.result) = 2
    /\ query.result[1][1] = <<1, 2, 2>> /\ query.result[2][1] = <<1, 2>>

\* What the accessor for id is bound to once the validation has succeeded.
ExpectedBinding(id) ==
    LET hits == AcceptedWhere(LAMBDA x : x = id)
    IN  IF hits = {} THEN InvalidResId
        ELSE ResourceId(merged.keys[CHOOSE k \in hits : TRUE])

\* C19. An accessor is unresolved and waits for on_ready as long as the
\* validation has not succeeded; from the validation on, and at once when it
\* is created later, it is bound to the identifier of its itemID, or to
\* INVALID_RES_ID when the itemID is not in the index; once bound it never
\* changes.
C19_AccessorBinding ==
    /\ [](\A k \in 1..Len(accessors) :
            /\ mpc # "validated" =>
                  /\ ~accessors[k].bound
                  /\ \E w \in 1..Len(waiting) : waiting[w] = k
            /\ mpc = "validated" =>
                  /\ accessors[k].bound
                  /\ accessors[k].resId = ExpectedBinding(accessors[k].id)
                  /\ waiting = <<>>)
    /\ [][\A k \in 1..Len(accessors) :
            accessors[k].bound =>
                (k <= Len(accessors') /\ accessors'[k] = accessors[k])]_mergeVars

\* One accessor bound by the validation to an identifier, one created after
\* the validation and bound to INVALID_RES_ID.
C19_Witness ==
    /\ mpc = "validated"
    /\ Len(accessors) = 2
    /\ accessors[1].bound /\ accessors[1].resId = ExpectedBinding(<<1, 2>>)
    /\ accessors[1].resId # InvalidResId
    /\ accessors[2].bound /\ accessors[2].id = <<2, 2>>
    /\ accessors[2].resId = InvalidResId

\* ------------------------------------------------ claims on the loader
\* The positions of the items the loader sees with an itemID: those of the
\* files that parse.
Visible == {k \in 1..Len(input) : input[k].frag \notin bad /\ input[k].id # NoItemID}

\* The visible positions whose itemID was not seen at an earlier one.
FirstSeen == {k \in Visible : \A j \in Visible : j < k => input[j].id # input[k].id}

\* The positions an error of the given kind was reported for.
Reported(kind) == {merged.errors[e][2] : e \in {x \in 1..Len(merged.errors) : merged.errors[x][1] = kind}}

\* C15. Duplicate handling: of the items with one itemID, in one file or in
\* several, the first read is accepted with its content and every later one
\* is skipped with one DuplicateIdentifierError each; the index and the
\* catalog hold one entry for the itemID, and the other items are merged.
C15_DuplicateHandling ==
    mpc = "merged" =>
        /\ Len(merged.accepted) = Cardinality(FirstSeen)
        /\ \A k \in FirstSeen : \E a \in 1..Len(merged.accepted) :
              /\ merged.accepted[a] = input[k]
              /\ <<merged.keys[a], input[k].v>> \in merged.catalog
              /\ \A x \in 1..Len(merged.index) :
                    (merged.index[x][1] = input[k].id) = (x = a)
        /\ Reported("DuplicateIdentifierError") = Visible \ FirstSeen
        /\ Cardinality({e \in 1..Len(merged.errors) :
                           merged.errors[e][1] = "DuplicateIdentifierError"})
              = Cardinality(Visible \ FirstSeen)
        /\ Cardinality(merged.catalog) = Cardinality(OriginalCatalog) + Cardinality(FirstSeen)

\* One itemID three times, twice in the first file and once in the second,
\* the first with a content of its own.
C15_Witness ==
    /\ mpc = "merged"
    /\ Len(input) = 3 /\ bad = {}
    /\ input[1].id # NoItemID
    /\ input[2].id = input[1].id /\ input[3].id = input[1].id
    /\ input[1].frag = 1 /\ input[2].frag = 1 /\ input[3].frag = 2
    /\ input[1].v # input[2].v /\ input[1].v # input[3].v
    /\ merged.accepted = <<input[1]>>
    /\ Len(merged.errors) = 2

\* The mod configs without the files that fail to parse and without the items
\* that have no itemID.
WellFormedPart == SelectSeq(input, LAMBDA e : e.frag \notin bad /\ e.id # NoItemID)

\* C17. Per-fragment isolation: the items of a file that fails to parse and
\* the items without itemID are in neither the accepted items nor the
\* catalog, and the accepted items, their keys and the catalog are those of
\* the merge of the well-formed part alone.
C17_Isolation ==
    mpc = "merged" =>
        /\ \A a \in 1..Len(merged.accepted) :
              merged.accepted[a].frag \notin bad /\ merged.accepted[a].id # NoItemID
        /\ \A k \in Visible : \E a \in 1..Len(merged.accepted) :
              /\ merged.accepted[a].id = input[k].id
              /\ \E e \in merged.catalog : e[1] = merged.keys[a]
        /\ Reported("InvalidItemError") =
              {k \in 1..Len(input) : input[k].frag \notin bad /\ input[k].id = NoItemID}
        /\ merged.parseErrors = bad
        /\ LET alone == MergeResult(WellFormedPart, {})
           IN  /\ merged.accepted = alone.accepted
               /\ merged.keys = alone.keys
               /\ merged.catalog = alone.catalog
               /\ merged.index = alone.index

\* The first file fails to parse, the second has an item without itemID
\* before a well-formed one.
C17_Witness ==
    /\ mpc = "merged"
    /\ Len(input) = 3 /\ bad = {1}
    /\ input[1].frag = 1 /\ input[1].id # NoItemID
    /\ input[2].frag = 2 /\ input[2].id = NoItemID
    /\ input[3].frag = 2 /\ input[3].id # NoItemID
    /\ merged.accepted = <<input[3]>>

\* ============================================================ fatal errors
\* The errors that abort the pass.
Faults == {"CatalogReadError", "PersistenceError"}

\* Where a fatal error can arise: reading the original catalog is part of
\* creating the new res_map.json, writing is part of storing it.
FaultPossible(fault, branch, found) ==
    CASE fault = "CatalogReadError" -> found
      [] fault = "PersistenceError" -> branch = "store"

\* The combined catalog on disk after an aborted pass.
PersistedAfterPartialWrite(fault, existed, existing, combined) ==
    IF fault = "PersistenceError"
    THEN [exists |-> TRUE, map |-> combined]
    ELSE [exists |-> existed, map |-> existing]

PersistedAfterAbort(fault, existed, existing, combined) ==
    [exists |-> existed, map |-> existing]

\* A run of the pipeline that a fatal error aborts.
RunAborts(fault) ==
    /\ pc = "start"
    /\ LET branch   == FlowBranch(frags, resMapExists, resMap)
           combined == CreateCombined(frags)
           disk     == PersistedAfterAbort(fault, resMapExists, resMap, combined)
       IN  /\ FaultPossible(fault, branch, AnyModConfigs(frags))
           /\ resMapExists' = disk.exists
           /\ resMap' = disk.map
           /\ run' = [ran |-> TRUE, branch |-> fault,
                      found |-> AnyModConfigs(frags), existed |-> resMapExists,
                      existing |-> resMap, combined |-> combined,
                      persistCalls |-> 0, deleteCalls |-> 0,
                      restartRequests |-> 0,
                      signalled |-> FALSE, flagBefore |-> restartFlag,
                      queued |-> queue]
    /\ pc' = "done"
    /\ UNCHANGED <<frags, restartFlag, status, queue, invoked, registered, lifetime,
                   flagSignals, prev>>
    /\ UNCHANGED <<mergeVars, storeVars, injectVars, libVars>>

NextFaults ==
    \/ Next
    \/ \E fault \in Faults : RunAborts(fault)

SpecFaults == Init /\ [][NextFaults]_vars

MaxFileLen == 2

\* The serialised catalogs: the entries in the order they are written.
FileContents == UNION {[1..n -> EntryContents] : n \in 0..MaxFileLen}

\* One write of persist: the next entry goes to the end of the temporary file.
WriteEntryInPlace(disk, entry) ==
    [disk EXCEPT !.path = Append(disk.temp, entry), !.pathExists = TRUE,
                 !.temp = Append(disk.temp, entry)]

WriteEntry(disk, entry) == [disk EXCEPT !.temp = Append(disk.temp, entry)]

\* The rename of the temporary file onto the path: one step of the file system.
Replace(disk) ==
    [path |-> disk.temp, pathExists |-> TRUE, temp |-> <<>>, tempExists |-> FALSE]

InitPersist ==
    /\ CoreIdle /\ MergeIdle /\ InjectIdle /\ LibIdle
    /\ pathExists \in BOOLEAN
    /\ path \in (IF pathExists THEN FileContents ELSE {<<>>})
    /\ temp = <<>> /\ tempExists = FALSE
    /\ wpc = "idle"
    /\ observed = <<>>
    /\ candidate = <<>>
    /\ previous = [exists |-> pathExists, content |-> path]

\* persist(candidate) starts: the temporary file is created empty.
BeginPersist(c) ==
    /\ wpc = "idle"
    /\ candidate' = c
    /\ previous' = [exists |-> pathExists, content |-> path]
    /\ temp' = <<>> /\ tempExists' = TRUE
    /\ wpc' = "writing"
    /\ observed' = <<>>
    /\ UNCHANGED <<path, pathExists>>
    /\ UNCHANGED <<vars, mergeVars, injectVars, libVars>>

WriteStep ==
    /\ wpc = "writing"
    /\ Len(temp) < Len(candidate)
    /\ LET disk == WriteEntry([path |-> path, pathExists |-> pathExists,
                               temp |-> temp, tempExists |-> tempExists],
                              candidate[Len(temp) + 1])
       IN  /\ path' = disk.path /\ pathExists' = disk.pathExists
           /\ temp' = disk.temp /\ tempExists' = disk.tempExists
    /\ UNCHANGED <<wpc, observed, candidate, previous>>
    /\ UNCHANGED <<vars, mergeVars, injectVars, libVars>>

RenameStep ==
    /\ wpc = "writing"
    /\ temp = candidate
    /\ LET disk == Replace([path |-> path, pathExists |-> pathExists,
                            temp |-> temp, tempExists |-> tempExists])
       IN  /\ path' = disk.path /\ pathExists' = disk.pathExists
           /\ temp' = disk.temp /\ tempExists' = disk.tempExists
    /\ wpc' = "written"
    /\ UNCHANGED <<observed, candidate, previous>>
    /\ UNCHANGED <<vars, mergeVars, injectVars, libVars>>

\* The process dies in the middle of persist: the files stay as they are.
Crash ==
    /\ wpc = "writing"
    /\ wpc' = "crashed"
    /\ UNCHANGED <<path, pathExists, temp, tempExists, observed, candidate, previous>>
    /\ UNCHANGED <<vars, mergeVars, injectVars, libVars>>

\* A starting process reads the combined-catalog path.
ReadPath ==
    /\ observed = <<>>
    /\ observed' = <<[exists |-> pathExists, content |-> path]>>
    /\ UNCHANGED <<path, pathExists, temp, tempExists, wpc, candidate, previous>>
    /\ UNCHANGED <<vars, mergeVars, injectVars, libVars>>

\* The next process lifetime, after a persist that ended or crashed.
NextLifetime ==
    /\ wpc \in {"written", "crashed"}
    /\ wpc' = "idle"
    /\ UNCHANGED <<path, pathExists, temp, tempExists, observed, candidate, previous>>
    /\ UNCHANGED <<vars, mergeVars, injectVars, libVars>>

NextPersist ==
    \/ \E c \in FileContents : BeginPersist(c)
    \/ WriteStep
    \/ RenameStep
    \/ Crash
    \/ ReadPath
    \/ NextLifetime

SpecPersist == InitPersist /\ [][NextPersist]_storeVars

\* The complete files a reader may find during and after the last persist.
CompleteFiles == {previous, [exists |-> TRUE, content |-> candidate]}

\* C18. Atomic persistence: at every point of persist(candidate), a crash in
\* the middle of it included, the combined-catalog path holds the complete
\* previous catalog (or no file) or the complete candidate, and that is what
\* a reader of the path observes.
C18_AtomicPersistence ==
    /\ [exists |-> pathExists, content |-> path] \in CompleteFiles
    /\ \A k \in 1..Len(observed) : observed[k] \in CompleteFiles
    /\ (wpc = "written" => pathExists /\ path = candidate)
    /\ (wpc \in {"writing", "crashed"} => previous = [exists |-> pathExists, content |-> path])

\* A crash after a part of the candidate was written, with a reader that then
\* finds the previous catalog.
C18_Witness ==
    /\ wpc = "crashed"
    /\ Len(temp) > 0 /\ Len(temp) < Len(candidate)
    /\ previous.exists /\ previous.content # candidate
    /\ Len(previous.content) > 0
    /\ observed = <<previous>>

\* ============================================================== index.js
\* gui/gameface/js/index.js: the assets of the subviews that carry a
\* ModInjectModel are appended to document.body.
MaxResIds == 2
MaxBatch == 2
MaxCalls == 3

ResIds == 1..MaxResIds

\* The asset categories, in the order of assetTypes.
AssetTypes == <<"styles", "scripts", "modules">>

\* window.subViews.get(resId): no subview, a subview without ModInjectModel,
\* and subviews with one. An asset is its value; 0 is an asset without value.
NoSubView == [present |-> FALSE, inject |-> FALSE,
              styles |-> <<>>, scripts |-> <<>>, modules |-> <<>>]
PlainSubView == [present |-> TRUE, inject |-> FALSE,
                 styles |-> <<>>, scripts |-> <<>>, modules |-> <<>>]
InjectSubViews ==
    {[present |-> TRUE, inject |-> TRUE,
      styles |-> <<1>>, scripts |-> <<2, 0>>, modules |-> <<>>],
     [present |-> TRUE, inject |-> TRUE,
      styles |-> <<>>, scripts |-> <<1, 1>>, modules |-> <<2>>]}
SubViewStates == {NoSubView, PlainSubView} \cup InjectSubViews

\* The arrays of resIds an onAdded event carries.
Batches == UNION {[1..n -> ResIds] : n \in 1..MaxBatch}

\* The elements injectModAssets appends for one asset category: one element
\* for each asset that has a value, tagged <<resId, type, position, url>>.
ElementsOf(resId, type, assets) ==
    SelectSeq([k \in 1..Len(assets) |-> <<resId, type, k, assets[k]>>],
              LAMBDA e : e[4] # 0)

AllElementsScriptsFirst(resId, sv) ==
    ElementsOf(resId, AssetTypes[2], sv.scripts)
        \o ElementsOf(resId, AssetTypes[1], sv.styles)
        \o ElementsOf(resId, AssetTypes[3], sv.modules)

AllElementsOf(resId, sv) ==
    ElementsOf(resId, AssetTypes[1], sv.styles)
        \o ElementsOf(resId, AssetTypes[2], sv.scripts)
        \o ElementsOf(resId, AssetTypes[3], sv.modules)

\* injectModAssets(resId) on st = [injectedResIds, body, calls].
InjectModAssetsMutant(views, st, resId) ==
    IF ~views[resId].inject THEN st
    ELSE [injectedResIds |-> st.injectedResIds \cup {resId},
          body |-> st.body \o AllElementsOf(resId, views[resId]),
          calls |-> [st.calls EXCEPT ![resId] = @ + 1]]

InjectModAssetsMarkFirst(views, st, resId) ==
    IF resId \in st.injectedResIds
    THEN [st EXCEPT !.calls[resId] = @ + (IF views[resId].inject THEN 1 ELSE 0)]
    ELSE IF ~views[resId].inject
         THEN [st EXCEPT !.injectedResIds = @ \cup {resId}]
    ELSE [injectedResIds |-> st.injectedResIds \cup {resId},
          body |-> st.body \o AllElementsOf(resId, views[resId]),
          calls |-> [st.calls EXCEPT ![resId] = @ + 1]]

InjectModAssets(views, st, resId) ==
    IF resId \in st.injectedResIds
    THEN [st EXCEPT !.calls[resId] = @ + (IF views[resId].inject THEN 1 ELSE 0)]
    ELSE IF ~views[resId].inject THEN st
    ELSE [injectedResIds |-> st.injectedResIds \cup {resId},
          body |-> st.body \o AllElementsOf(resId, views[resId]),
          calls |-> [st.calls EXCEPT ![resId] = @ + 1]]

\* resIds.forEach(injectModAssets)
RECURSIVE ForEachInject(_, _, _, _)
ForEachInject(views, st, resIds, k) ==
    IF k > Len(resIds) THEN st
    ELSE ForEachInject(views, InjectModAssets(views, st, resIds[k]), resIds, k + 1)

\* window.subViews.ids()
RECURSIVE IdsFrom(_, _)
IdsFrom(views, r) ==
    IF r > MaxResIds THEN <<>>
    ELSE (IF views[r].present THEN <<r>> ELSE <<>>) \o IdsFrom(views, r + 1)

InjectState == [injectedResIds |-> injectedResIds, body |-> body, calls |-> calls]

\* The resIds of a forEach whose call of injectModAssets found no
\* ModInjectModel: those reported and still not in injectedResIds after it.
Missed(resIds, st) ==
    {resIds[k] : k \in 1..Len(resIds)} \ st.injectedResIds

InitInject ==
    /\ CoreIdle /\ MergeIdle /\ StoreIdle /\ LibIdle
    /\ subViews \in [ResIds -> SubViewStates]
    /\ injectedResIds = {}
    /\ body = <<>>
    /\ jpc = "loading"
    /\ calls = [r \in ResIds |-> 0]
    /\ missed = {}

\* engine.whenReady resolves: the handler is registered and the subviews
\* already present are scanned.
WhenReady ==
    /\ jpc = "loading"
    /\ jpc' = "ready"
    /\ LET st == ForEachInject(subViews, InjectState, IdsFrom(subViews, 1), 1)
       IN  /\ injectedResIds' = st.injectedResIds
           /\ body' = st.body
           /\ calls' = st.calls
           /\ missed' = missed \cup Missed(IdsFrom(subViews, 1), st)
    /\ UNCHANGED subViews
    /\ UNCHANGED <<vars, mergeVars, storeVars, libVars>>

\* A subViews.onAdded event, handled once the handler is registered.
OnAdded(resIds) ==
    /\ jpc = "ready"
    /\ LET st == ForEachInject(subViews, InjectState, resIds, 1)
       IN  /\ \A r \in ResIds : st.calls[r] <= MaxCalls
           /\ injectedResIds' = st.injectedResIds
           /\ body' = st.body
           /\ calls' = st.calls
           /\ missed' = missed \cup Missed(resIds, st)
    /\ UNCHANGED <<subViews, jpc>>
    /\ UNCHANGED <<vars, mergeVars, storeVars, libVars>>

\* Gameface adds, removes or fills a subview.
SetSubView(r, sv) ==
    /\ subViews[r] # sv
    /\ subViews' = [subViews EXCEPT ![r] = sv]
    /\ UNCHANGED <<injectedResIds, body, jpc, calls, missed>>
    /\ UNCHANGED <<vars, mergeVars, storeVars, libVars>>

NextInject ==
    \/ WhenReady
    \/ \E resIds \in Batches : OnAdded(resIds)
    \/ \E r \in ResIds, sv \in SubViewStates : SetSubView(r, sv)

SpecInject == InitInject /\ [][NextInject]_injectVars

\* The elements of the body appended for the subview resId.
BodyOf(b, resId) == SelectSeq(b, LAMBDA e : e[1] = resId)

\* C20. Inject-once: whatever the initial scan and the onAdded events report,
\* and however often, each asset of a subview with a ModInjectModel is
\* appended to document.body at most once per resId: no asset of a resId is
\* in the body twice, and a resId whose assets were appended gets no further
\* element.
C20_InjectOnce ==
    /\ [](/\ \A i \in 1..Len(body), j \in 1..Len(body) :
               (i # j) => <<body[i][1], body[i][2], body[i][3]>>
                            # <<body[j][1], body[j][2], body[j][3]>>
          /\ \A i \in 1..Len(body) : body[i][1] \in injectedResIds)
    /\ [][\A r \in injectedResIds : BodyOf(body', r) = BodyOf(body, r)]_injectVars

\* A subview present at initialization with a ModInjectModel and reported
\* again by onAdded, while it still carries one.
C20_Witness ==
    /\ jpc = "ready"
    /\ \E r \in ResIds :
          /\ calls[r] = MaxCalls
          /\ r \in injectedResIds
          /\ Len(BodyOf(body, r)) = 3
          /\ subViews[r] \in InjectSubViews
    /\ injectedResIds = ResIds

\* ============================================================== media.js
\* MediaContext: width, height and scale follow the engine's clientResized
\* and self.onScaleUpdated events.
MaxBinds == 4
MaxNotified == 4

\* The sizes and scales the engine reports.
Sizes == {1, 2}

\* engine.on(event, fn) and engine.off(event, fn): off removes the handler
\* that is the function it is given.
EngineOn(h, event, fn) == h \cup {<<event, fn>>}
EngineOff(h, event, fn) == h \ {<<event, fn>>}

\* The handlers the engine calls for an event.
HandlersOf(h, event) == {e \in h : e[1] = event}

InitMedia ==
    /\ CoreIdle /\ MergeIdle /\ StoreIdle /\ InjectIdle /\ ObserverIdle /\ DebugIdle
    /\ width = 0 /\ height = 0 /\ scale = 0
    /\ onUpdateCallbacks = <<>>
    /\ handlers = {}
    /\ binds = 0
    /\ notified = 0
    /\ mediaSub = "none"
    /\ mediaReady = FALSE

\* engine.whenReady.then: the size and the scale are read and notified.
MediaReady(w, h, sc) ==
    /\ ~mediaReady
    /\ notified + Len(onUpdateCallbacks) <= MaxNotified
    /\ mediaReady' = TRUE
    /\ width' = w /\ height' = h /\ scale' = sc
    /\ notified' = notified + Len(onUpdateCallbacks)
    /\ UNCHANGED <<onUpdateCallbacks, handlers, binds, mediaSub>>
    /\ UNCHANGED BesideMedia

\* context.onUpdate(callback)
MediaOnUpdate(cb) ==
    /\ \A k \in 1..Len(onUpdateCallbacks) : onUpdateCallbacks[k] # cb
    /\ onUpdateCallbacks' = Append(onUpdateCallbacks, cb)
    /\ UNCHANGED <<width, height, scale, handlers, binds, notified, mediaSub, mediaReady>>
    /\ UNCHANGED BesideMedia

\* context.subscribe(): each .bind(this) makes a new function.
MediaSubscribe ==
    /\ binds + 2 <= MaxBinds
    /\ handlers' = EngineOn(EngineOn(handlers, "clientResized", binds + 1),
                            "self.onScaleUpdated", binds + 2)
    /\ binds' = binds + 2
    /\ mediaSub' = "on"
    /\ UNCHANGED <<width, height, scale, onUpdateCallbacks, notified, mediaReady>>
    /\ UNCHANGED BesideMedia

\* context.unsubscribe(): each .bind(this) makes a new function.
MediaUnsubscribe ==
    /\ binds + 2 <= MaxBinds
    /\ handlers' = EngineOff(EngineOff(handlers, "clientResized", binds + 1),
                             "self.onScaleUpdated", binds + 2)
    /\ binds' = binds + 2
    /\ mediaSub' = IF mediaSub = "none" THEN "none" ELSE "off"
    /\ UNCHANGED <<width, height, scale, onUpdateCallbacks, notified, mediaReady>>
    /\ UNCHANGED BesideMedia

\* The engine fires clientResized: every handler registered for it runs
\* onClientResized.
ClientResized(w, h) ==
    /\ LET n == Cardinality(HandlersOf(handlers, "clientResized"))
       IN  /\ notified + n * Len(onUpdateCallbacks) <= MaxNotified
           /\ width' = IF n > 0 THEN w ELSE width
           /\ height' = IF n > 0 THEN h ELSE height
           /\ notified' = notified + n * Len(onUpdateCallbacks)
    /\ UNCHANGED <<scale, onUpdateCallbacks, handlers, binds, mediaSub, mediaReady>>
    /\ UNCHANGED BesideMedia

\* The engine fires self.onScaleUpdated.
ScaleUpdated(sc) ==
    /\ LET n == Cardinality(HandlersOf(handlers, "self.onScaleUpdated"))
       IN  /\ notified + n * Len(onUpdateCallbacks) <= MaxNotified
           /\ scale' = IF n > 0 THEN sc ELSE scale
           /\ notified' = notified + n * Len(onUpdateCallbacks)
    /\ UNCHANGED <<width, height, onUpdateCallbacks, handlers, binds, mediaSub, mediaReady>>
    /\ UNCHANGED BesideMedia

NextMedia ==
    \/ \E w \in Sizes, h \in Sizes, sc \in Sizes : MediaReady(w, h, sc)
    \/ \E cb \in Callbacks : MediaOnUpdate(cb)
    \/ MediaSubscribe
    \/ MediaUnsubscribe
    \/ \E w \in Sizes, h \in Sizes : ClientResized(w, h)
    \/ \E sc \in Sizes : ScaleUpdated(sc)

SpecMedia == InitMedia /\ [][NextMedia]_mediaVars

\* C21. unsubscribe() unsubscribes from media events: once subscribe() was
\* followed by unsubscribe(), a clientResized or self.onScaleUpdated event
\* changes none of width, height and scale and calls no onUpdate callback.
C21_Unsubscribed ==
    [][(mediaSub = "off" /\ mediaSub' = "off" /\ mediaReady' = mediaReady)
          => UNCHANGED <<width, height, scale, notified>>]_mediaVars

\* ============================================================== model.js
\* ModelObserver(featureName), with a feature name given.
MaxCallbackId == 2

\* The ids viewEnv.addDataChangedCallback may return.
CallbackIds == 0..MaxCallbackId

\* The resId of the root model.
RootResId == 0

\* The smallest element of a non-empty set of numbers.
First(S) == CHOOSE x \in S : \A y \in S : x <= y

\* The lookup of media.js:182-189: the first subview of window.subViews.ids()
\* whose ModInjectModel.name is featureName, or the resId as it was.
ResolveResId(ids, current) == IF ids = {} THEN current ELSE First(ids)

\* A value of the context is truthy.
Truthy(cid) == cid # <<>> /\ cid[1] # 0

InitObserver ==
    /\ CoreIdle /\ MergeIdle /\ StoreIdle /\ InjectIdle /\ MediaIdle /\ DebugIdle
    /\ obsResId = RootResId
    /\ callbackId = <<>>
    /\ boundOnDataChanged = FALSE
    /\ engineOn = 0
    /\ viewEnvCallbacks = {}
    /\ obsReady = FALSE
    /\ named \in SUBSET ResIds
    /\ issued = <<>>
    /\ received = <<>>

\* The callback given to engine.whenReady.then runs.
ObsResolve ==
    /\ ~obsReady
    /\ obsReady' = TRUE
    /\ obsResId' = ResolveResId(named, obsResId)
    /\ UNCHANGED <<callbackId, boundOnDataChanged, engineOn, viewEnvCallbacks, named,
                   issued, received>>
    /\ UNCHANGED BesideObserver

\* context.subscribe()
ObsSubscribe ==
    /\ IF boundOnDataChanged
       THEN UNCHANGED <<callbackId, boundOnDataChanged, engineOn, viewEnvCallbacks, issued>>
       ELSE /\ boundOnDataChanged' = TRUE
            /\ engineOn' = engineOn + 1
            /\ \E id \in CallbackIds :
                  /\ \A e \in viewEnvCallbacks : e[1] # id
                  /\ callbackId' = <<id>>
                  /\ viewEnvCallbacks' = viewEnvCallbacks \cup {<<id, obsResId>>}
                  /\ issued' = <<id, obsResId>>
    /\ UNCHANGED <<obsResId, obsReady, named, received>>
    /\ UNCHANGED BesideObserver

\* context.unsubscribe()
ObsUnsubscribe ==
    /\ IF boundOnDataChanged
       THEN engineOn' = engineOn - 1 /\ boundOnDataChanged' = FALSE
       ELSE UNCHANGED <<engineOn, boundOnDataChanged>>
    /\ IF Truthy(callbackId)
       THEN /\ viewEnvCallbacks' = viewEnvCallbacks \ {<<callbackId[1], obsResId>>}
            /\ callbackId' = <<>>
       ELSE UNCHANGED <<viewEnvCallbacks, callbackId>>
    /\ UNCHANGED <<obsResId, obsReady, named, issued, received>>
    /\ UNCHANGED BesideObserver

\* Gameface adds a subview whose ModInjectModel.name is featureName.
AddNamedSubView(r) ==
    /\ r \notin named
    /\ named' = named \cup {r}
    /\ UNCHANGED <<obsResId, callbackId, boundOnDataChanged, engineOn, viewEnvCallbacks,
                   obsReady, issued, received>>
    /\ UNCHANGED BesideObserver

\* The engine fires viewEnv.onDataChanged: onDataChanged hands context.model,
\* the model of context.resId, to the callbacks.
DataChanged ==
    /\ engineOn > 0
    /\ received' = <<obsResId>>
    /\ UNCHANGED <<obsResId, callbackId, boundOnDataChanged, engineOn, viewEnvCallbacks,
                   obsReady, named, issued>>
    /\ UNCHANGED BesideObserver

NextObserver ==
    \/ ObsResolve
    \/ ObsSubscribe
    \/ ObsUnsubscribe
    \/ \E r \in ResIds : AddNamedSubView(r)
    \/ DataChanged

SpecObserver == InitObserver /\ [][NextObserver]_observerVars

\* C22. ModelObserver(featureName) observes the feature's subview: once the
\* engine is ready and subscribe() was called, in either order, and a subview
\* with the feature name exists, the data-changed callback is registered
\* against that subview's resId, not against the root model's, and the
\* callbacks receive that subview's model.
C22_ObservesFeature ==
    /\ []((obsReady /\ boundOnDataChanged /\ named # {})
             => issued # <<>> /\ issued[2] \in named /\ issued[2] # RootResId)
    /\ [][(obsReady /\ named # {} /\ received' # received)
             => received'[1] \in named]_observerVars

\* C24. subscribe/unsubscribe round trip: while subscribed, however often
\* subscribe() was called, one engine handler and one viewEnv callback are
\* registered; after unsubscribe() none is, for every callback id and also
\* when the resId was resolved in between.
C24_RoundTrip ==
    /\ boundOnDataChanged =>
          engineOn = 1 /\ viewEnvCallbacks = {issued}
    /\ ~boundOnDataChanged =>
          engineOn = 0 /\ viewEnvCallbacks = {}

\* ===================================================== chain of lifetimes
\* The lifetimes of the client over mod configs that stay as they are: each
\* BigWorld.restartGame starts the next one. The first starts on any
\* res_mods folder, without RESTART_FLAG_FILE.
InitChain ==
    /\ frags \in FragmentInputs
    /\ resMapExists \in BOOLEAN
    /\ resMap \in (IF resMapExists
                   THEN {CreateCombined(f) : f \in FragmentInputs}
                   ELSE {{}})
    /\ restartFlag = FALSE
    /\ pc = "start"
    /\ status = "Pending"
    /\ queue = <<>>
    /\ invoked = <<>>
    /\ registered = <<>>
    /\ lifetime = 1
    /\ flagSignals = 0
    /\ run = NoRun
    /\ prev = NoPrev
    /\ MergeIdle /\ StoreIdle /\ InjectIdle /\ LibIdle

NextChain ==
    \/ Run
    \/ \E cb \in Callbacks : OnReady(cb)
    \/ RestartGame

\* A started process runs the pipeline, and a restart that was signalled
\* happens.
SpecChain == InitChain /\ [][NextChain]_vars /\ WF_vars(Run) /\ WF_vars(RestartGame)

\* C23. No restart loop and eventual readiness: over fixed mod configs,
\* starting without the restart flag, the chain of lifetimes restarts at most
\* once and reaches a lifetime that ends validated with the flag absent.
C23_EventualReadiness ==
    /\ [](lifetime <= 2)
    /\ <>(pc = "done" /\ status = "Validated" /\ ~restartFlag)

\* ------------------------------------------- further claims on index.js
\* C25. A call of injectModAssets(resId) for a subview that is missing or has
\* no ModInjectModel changes neither injectedResIds nor the body; a resId is
\* marked only by a call that found a ModInjectModel, and a later report of a
\* resId not yet marked, with a ModInjectModel present, appends its assets.
C25_NoModelNoMark ==
    /\ [](jpc # "idle" =>
            \A r \in ResIds :
               ~subViews[r].inject =>
                  InjectModAssets(subViews, InjectState, r) = InjectState)
    /\ [][/\ \A r \in injectedResIds' \ injectedResIds : subViews[r].inject
          /\ (injectedResIds' = injectedResIds => body' = body)
          /\ \A r \in ResIds :
                (calls'[r] > calls[r] /\ r \notin injectedResIds)
                   => /\ r \in injectedResIds'
                      /\ BodyOf(body', r) # <<>>]_injectVars

\* A resId reported while its subview had no ModInjectModel, and injected by a
\* later report.
C25_Witness ==
    /\ jpc = "ready"
    /\ \E r \in ResIds :
          /\ r \in missed
          /\ r \in injectedResIds
          /\ BodyOf(body, r) # <<>>

\* The place of an asset category in assetTypes.
TypeRank(type) == CHOOSE i \in 1..Len(AssetTypes) : AssetTypes[i] = type

\* The list of an asset category in a ModInjectModel.
ListOf(sv, type) ==
    CASE type = "styles"  -> sv.styles
      [] type = "scripts" -> sv.scripts
      [] type = "modules" -> sv.modules

\* C26. Injection order and filtering: the elements appended for a subview
\* are one per asset with a value, the style links first, then the classic
\* scripts, then the module scripts, each group in the order of its list;
\* assets without a value and empty lists append nothing.
C26_OrderAndFiltering ==
    [][\A r \in injectedResIds' \ injectedResIds :
          LET els == BodyOf(body', r)
              sv  == subViews[r]
          IN  /\ \A i \in 1..Len(els), j \in 1..Len(els) :
                    i < j => \/ TypeRank(els[i][2]) < TypeRank(els[j][2])
                             \/ /\ els[i][2] = els[j][2]
                                /\ els[i][3] < els[j][3]
              /\ \A i \in 1..Len(els) :
                    /\ els[i][3] \in 1..Len(ListOf(sv, els[i][2]))
                    /\ els[i][4] = ListOf(sv, els[i][2])[els[i][3]]
                    /\ els[i][4] # 0
              /\ \A t \in 1..Len(AssetTypes) :
                    \A k \in 1..Len(ListOf(sv, AssetTypes[t])) :
                       ListOf(sv, AssetTypes[t])[k] # 0 =>
                          \E i \in 1..Len(els) :
                             els[i] = <<r, AssetTypes[t], k, ListOf(sv, AssetTypes[t])[k]>>
              /\ \E at \in Len(body)..Len(body') :
                    SubSeq(body', at + 1, at + Len(els)) = els]_injectVars

\* A subview with one style, a script with a value and a script without: the
\* link comes first, then the one script.
C26_Witness ==
    /\ jpc = "ready"
    /\ \E r \in ResIds :
          /\ r \in injectedResIds
          /\ subViews[r].styles = <<1>> /\ subViews[r].scripts = <<2, 0>>
          /\ BodyOf(body, r) = <<<<r, "styles", 1, 1>>, <<r, "scripts", 1, 2>>>>

\* ============================================================== debug.js
\* debugObject(obj, options): one call with its recursive calls, the active
\* calls kept as a stack.
MaxDepthOption == 2

\* The objects of a graph; obj is the first.
Nodes == {1, 2}

\* The values of an object's properties (or an array's items), in key order.
\* None stands for a primitive value and for an empty object or array.
ChildLists == {<<>>, <<1>>, <<2>>, <<1, 2>>, <<2, 1>>, <<2, 2>>}

\* The object graphs, those with reference cycles included.
Graphs == [Nodes -> ChildLists]

\* options.maxDepth
DepthOptions == (0 - 1)..MaxDepthOption

\* "if (currentDepth > maxDepth)"
MaxDepthReachedOffByOne(currentDepth, limit) == currentDepth > limit + 1

MaxDepthReached(currentDepth, limit) == currentDepth > limit

\* The call on top of the stack.
Top == stack[Len(stack)]
Pop == SubSeq(stack, 1, Len(stack) - 1)

InitDebug ==
    /\ CoreIdle /\ MergeIdle /\ StoreIdle /\ InjectIdle /\ MediaIdle /\ ObserverIdle
    /\ graph \in Graphs
    /\ maxDepth \in DepthOptions
    /\ stack = <<[node |-> 1, depth |-> 0, next |-> 0]>>
    /\ logged = <<>>

\* A call starts: the depth check, then the values without properties, then
\* the opening line of an object or array.
Enter ==
    /\ stack # <<>>
    /\ Top.next = 0
    /\ IF MaxDepthReached(Top.depth, maxDepth)
       THEN /\ logged' = Append(logged, <<Top.depth, "[max depth reached]">>)
            /\ stack' = Pop
       ELSE IF graph[Top.node] = <<>>
       THEN /\ logged' = Append(logged, <<Top.depth, "value">>)
            /\ stack' = Pop
       ELSE /\ logged' = Append(logged, <<Top.depth, "open">>)
            /\ stack' = [stack EXCEPT ![Len(stack)].next = 1]
    /\ UNCHANGED <<graph, maxDepth>>
    /\ UNCHANGED BesideDebug

\* forEach: the recursive call for the next property, at currentDepth + 1.
Visit ==
    /\ stack # <<>>
    /\ Top.next \in 1..Len(graph[Top.node])
    /\ stack' = Append([stack EXCEPT ![Len(stack)].next = @ + 1],
                       [node |-> graph[Top.node][Top.next],
                        depth |-> Top.depth + 1, next |-> 0])
    /\ UNCHANGED <<graph, maxDepth, logged>>
    /\ UNCHANGED BesideDebug

\* After the last property: the closing line, and the call returns.
Leave ==
    /\ stack # <<>>
    /\ Top.next > Len(graph[Top.node])
    /\ logged' = Append(logged, <<Top.depth, "close">>)
    /\ stack' = Pop
    /\ UNCHANGED <<graph, maxDepth>>
    /\ UNCHANGED BesideDebug

NextDebug ==
    \/ Enter
    \/ Visit
    \/ Leave

\* A call that can take a step takes it.
SpecDebug == InitDebug /\ [][NextDebug]_debugVars /\ WF_debugVars(NextDebug)

====
